---- MODULE Spec2Model ----
(***************************************************************************)
(* A model of libear, the exec-family interception library of scan-build: *)
(* src/libear/ear.c (hooks, environment state, file-drop reporting),       *)
(* src/libear/protocol.c (socket reporting) and the string-array helpers.  *)
(*                                                                         *)
(* Strings are sequences of byte values (numbers 1..255). A null pointer   *)
(* to a string is NULLP. A string array is the sequence of its slots up to *)
(* and including the first null slot (the sentinel); the null array        *)
(* pointer is NULLARR.                                                     *)
(***************************************************************************)
EXTENDS Integers, Sequences, FiniteSets, TLC

\* ------------------------------------------------------------- bounds
\* deepest nesting of hook frames (a real function re-entering a hook)
MaxDepth == 2
\* number of top-level hook calls the host makes
MaxCalls == 2
\* number of injected environment faults (failed allocation, write, ...)
MaxFaults == 1
\* number of times the host changes its own environment between calls
MaxHostOps == 1
\* longest environment vector given to bear_update_environment on its own
MaxEnvLen == 3
\* longest argument vector of a record encoded on its own
MaxArgs == 2

\* ------------------------------------------------------------ strings
NULLP == <<-1>>
NULLARR == <<>>
\* a pointer to a bear_env_t is <<>> (null) or <<e>>, e the record pointed to
NULLENV == <<>>

\* ear.c:461-462, the separators of the file-drop format
RS == 30
US == 31
\* '=' (ear.c:567)
EQ == 61
\* sizeof(pid_t), sizeof(size_t) on the LP64 targets (protocol.c:52, 58)
PidWidth == 4
SizeWidth == 8

\* the recognized keys; config.h gives the real names, short stand-ins here
ENV_OUTPUT == <<79>>
ENV_PRELOAD == <<80>>
ENV_FLAT == <<70>>

RECURSIVE Flatten(_)
Flatten(ss) == IF ss = <<>> THEN <<>> ELSE Head(ss) \o Flatten(Tail(ss))

Take(s, n) == IF Len(s) <= n THEN s ELSE SubSeq(s, 1, n)
Drop(s, n) == IF Len(s) <= n THEN <<>> ELSE SubSeq(s, n + 1, Len(s))

\* 0 == strncmp(a, b, n)
strncmp_eq(a, b, n) == Take(a, n) = Take(b, n)

\* asprintf(&env, "%s=%s", key, value)
KeyValue(key, value) == key \o <<EQ>> \o value

\* ------------------------------------------------------- string arrays
\* ear.c:651-656
bear_strings_length(in) ==
    IF in = NULLARR THEN 0
    ELSE (CHOOSE i \in 1..Len(in) :
             in[i] = NULLP /\ \A j \in 1..(i - 1) : in[j] # NULLP) - 1

\* the strings of an array, without the sentinel
Strings(in) == IF in = NULLARR THEN <<>> ELSE SubSeq(in, 1, bear_strings_length(in))

\* ear.c:616-636 (the path on which every allocation succeeds)
bear_strings_copy(in) == Strings(in) \o <<NULLP>>

\* ear.c:638-649 (the path on which realloc succeeds)
bear_strings_append(in, e) ==
    LET size == bear_strings_length(in)
    IN  [i \in 1..(size + 2) |->
            IF i <= size THEN in[i] ELSE IF i = size + 1 THEN e ELSE NULLP]

\* ear.c:590-614: args is the variadic list, its last element the null
bear_strings_build(args) ==
    LET n == (CHOOSE i \in 1..Len(args) :
                 args[i] = NULLP /\ \A j \in 1..(i - 1) : args[j] # NULLP) - 1
    IN  SubSeq(args, 1, n) \o <<NULLP>>

\* -------------------------------------------------- environment update
\* ear.c:566-567: the entry s sets key
Matches(s, key) ==
    /\ strncmp_eq(s, key, Len(key))
    /\ Len(s) > Len(key)
    /\ s[Len(key) + 1] = EQ

\* ear.c:565-569: the slot the search loop stops at
FindSlot(envs, key) ==
    CHOOSE i \in 1..Len(envs) :
        /\ envs[i] = NULLP \/ Matches(envs[i], key)
        /\ \A j \in 1..(i - 1) : envs[j] # NULLP /\ ~Matches(envs[j], key)

\* ear.c:561-585
bear_update_environ(envs, key, value) ==
    IF envs = NULLARR THEN envs
    ELSE LET it == FindSlot(envs, key)
         IN  IF envs[it] = NULLP \/ Drop(envs[it], Len(key) + 1) # value
             THEN IF envs[it] # NULLP
                  THEN [envs EXCEPT ![it] = KeyValue(key, value)]
                  ELSE bear_strings_append(envs, KeyValue(key, value))
             ELSE envs

\* ear.c:548-559; env points to a bear_env_t (NULLENV: state == 0);
\* flat tells whether ENV_FLAT is configured
bear_update_environment(envp, env, flat) ==
    LET r0 == bear_strings_copy(envp)
    IN  IF env = NULLENV THEN r0
        ELSE LET r1 == bear_update_environ(r0, ENV_PRELOAD, env[1].preload)
                 r2 == bear_update_environ(r1, ENV_OUTPUT, env[1].output)
             IN  IF flat THEN bear_update_environ(r2, ENV_FLAT, env[1].flat) ELSE r2

\* ------------------------------------------------------- call records
\* a bear_message_t is [pid, ppid, fun, cwd, cmd] (ear.c:56-62)

RECURSIVE DecDigits(_)
DecDigits(n) ==
    IF n < 10 THEN <<48 + n>> ELSE DecDigits(n \div 10) \o <<48 + (n % 10)>>

\* printf's %d
FormatD(n) == IF n < 0 THEN <<45>> \o DecDigits(-n) ELSE DecDigits(n)

\* bear_write_message with every field, the arguments too, ended by RS
bear_write_message_rs(e) ==
    <<FormatD(e.pid) \o <<RS>>,
      FormatD(e.ppid) \o <<RS>>,
      e.fun \o <<RS>>,
      e.cwd \o <<RS>>>>
    \o [it \in 1..bear_strings_length(e.cmd) |-> e.cmd[it] \o <<RS>>]

\* ear.c:460-471: the payloads of the dprintf calls, in order
bear_write_message(e) ==
    <<FormatD(e.pid) \o <<RS>>,
      FormatD(e.ppid) \o <<RS>>,
      e.fun \o <<RS>>,
      e.cwd \o <<RS>>>>
    \o [it \in 1..bear_strings_length(e.cmd) |-> e.cmd[it] \o <<US>>]

\* the object representation of a non-negative value in w bytes (little
\* endian); a process id is never negative
RECURSIVE Bytes(_, _)
Bytes(n, w) == IF w = 0 THEN <<>> ELSE <<n % 256>> \o Bytes(n \div 256, w - 1)

\* protocol.c:50-53: the buffers handed to socket_write, in order
write_pid(pid) == <<Bytes(pid, PidWidth)>>

\* write_string sending the terminating NUL along with the string
write_string_nul(message) ==
    LET length == IF message # NULLP THEN Len(message) ELSE 0
    IN  IF length > 0
        THEN <<Bytes(length, SizeWidth), message \o <<0>>>>
        ELSE <<Bytes(length, SizeWidth)>>

\* protocol.c:55-63
write_string(message) ==
    LET length == IF message # NULLP THEN Len(message) ELSE 0
    IN  IF length > 0
        THEN <<Bytes(length, SizeWidth), message>>
        ELSE <<Bytes(length, SizeWidth)>>

\* protocol.c:65-73
write_string_array(message) ==
    LET length == bear_strings_length(message)
    IN  <<Bytes(length, SizeWidth)>>
        \o Flatten([it \in 1..length |-> write_string(message[it])])

\* protocol.c:75-82
bear_write_message_socket(e) ==
    write_pid(e.pid) \o write_pid(e.ppid) \o write_string(e.fun)
    \o write_string(e.cwd) \o write_string_array(e.cmd)

\* ------------------------------------------------ ambient environment
\* libc's getenv, setenv(.., 1) and unsetenv on the environ vector
getenv(env, key) ==
    LET it == FindSlot(env, key)
    IN  IF env[it] = NULLP THEN NULLP ELSE Drop(env[it], Len(key) + 1)

setenv(env, key, value) ==
    LET it == FindSlot(env, key)
    IN  IF env[it] # NULLP
        THEN [env EXCEPT ![it] = KeyValue(key, value)]
        ELSE bear_strings_append(env, KeyValue(key, value))

unsetenv(env, key) == SelectSeq(env, LAMBDA s : ~Matches(s, key))

\* ear.c:493-502; fail names the field whose strdup returns null ("none":
\* every strdup succeeds); flat tells whether ENV_FLAT is configured
bear_capture_env_t(env, flat, fail) ==
    [output  |-> IF fail = "output" THEN NULLP ELSE getenv(env, ENV_OUTPUT),
     preload |-> IF fail = "preload" THEN NULLP ELSE getenv(env, ENV_PRELOAD),
     flat    |-> IF flat /\ fail # "flat" THEN getenv(env, ENV_FLAT) ELSE NULLP]

\* the fields whose strdup is called at all
Captured(env, flat) ==
    {f \in {"output", "preload"} \cup (IF flat THEN {"flat"} ELSE {}) :
        bear_capture_env_t(env, flat, "none")[f] # NULLP}

\* a validation that looks at the preload field alone
bear_is_valid_env_t_preload(env, flat) ==
    /\ env # NULLENV
    /\ env[1].preload # NULLP

\* ear.c:504-512
bear_is_valid_env_t(env, flat) ==
    /\ env # NULLENV
    /\ env[1].preload # NULLP
    /\ env[1].output # NULLP
    /\ flat => env[1].flat # NULLP

\* ear.c:515-517: one field written back
RestoreField(e, key, v) == IF v # NULLP THEN setenv(e, key, v) ELSE unsetenv(e, key)

\* ear.c:514-535 (the path on which setenv and unsetenv succeed)
bear_restore_env_t(env, e, flat) ==
    LET e1 == RestoreField(e, ENV_OUTPUT, env.output)
        e2 == RestoreField(e1, ENV_PRELOAD, env.preload)
    IN  IF flat THEN RestoreField(e2, ENV_FLAT, env.flat) ELSE e2

\* --------------------------------------------------------------- hooks
Hooks == {"execve", "execv", "execvpe", "execvp", "execvP", "execl", "execlp",
          "execle", "posix_spawn", "posix_spawnp"}

\* the call_* function a hook forwards to, named by the symbol it resolves
Forward(h) ==
    CASE h \in {"execve", "execv", "execl", "execle"} -> "execve"
      [] h \in {"execvp", "execlp"} -> "execvp"
      [] OTHER -> h

\* call_execvp and call_execvP take no environment (ear.c:365-397)
Ambient(h) == Forward(h) \in {"execvp", "execvP"}
\* execl, execlp, execle build their argument vector (ear.c:248-303)
Variadic(h) == h \in {"execl", "execlp", "execle"}
\* execv and execl forward environ (ear.c:207, 256)
UsesEnviron(h) == h \in {"execv", "execl"}

\* __func__ in REPORT_CALL (ear.c:95, 104)
FuncName(h) ==
    CASE h = "execve" -> <<101, 120, 101, 99, 118, 101>>
      [] h = "execv" -> <<101, 120, 101, 99, 118>>
      [] h = "execvpe" -> <<101, 120, 101, 99, 118, 112, 101>>
      [] h = "execvp" -> <<101, 120, 101, 99, 118, 112>>
      [] h = "execvP" -> <<101, 120, 101, 99, 118, 80>>
      [] h = "execl" -> <<101, 120, 101, 99, 108>>
      [] h = "execlp" -> <<101, 120, 101, 99, 108, 112>>
      [] h = "execle" -> <<101, 120, 101, 99, 108, 101>>
      [] h = "posix_spawn" -> <<112, 111, 115, 105, 120, 95, 115, 112, 97, 119, 110>>
      [] OTHER -> <<112, 111, 115, 105, 120, 95, 115, 112, 97, 119, 110, 112>>

\* REPORT_FAILED_CALL clearing the flag whoever set it
ReportFailedFlagAlways(report_state, flag) == 0

\* REPORT_FAILED_CALL (ear.c:98-101): the flag after the macro
ReportFailedFlag(report_state, flag) == IF report_state = 0 THEN 0 ELSE flag

\* a call_* function reporting any failure as -1
CallResultNormalized(r) == IF r = 0 THEN 0 ELSE -1

\* ear.c:344-346, 373-377: what a call_* function returns, r the real result
CallResult(r) == r

\* -------------------------------------------------------------- inputs
\* what the host process is: getpid(), getppid(), getcwd() (ear.c:447-453)
Host == [pid |-> 300, ppid |-> 1, cwd |-> <<47, 116>>]

\* the environments a process may be started with
InitEnvs ==
    {<<<<88, 61, 49>>, <<79, 61, 100>>, <<80, 61, 108>>, <<70, 61, 49>>, NULLP>>,
     <<<<79, 61, 100>>, <<80, 61, 108>>, NULLP>>,
     <<<<88, 61, 49>>, NULLP>>}

\* the path, argument vectors and environment vectors a host passes
PathSet == {<<47, 99>>}
ArgvSet == {<<<<99, 99>>, NULLP>>}
EnvpSet == {NULLARR, <<<<80, 61, 104>>, <<88, 61, 49>>, NULLP>>}
\* what a real function may return
RetVals == {-1, 0, 2}
\* the changes the host may make to its own environment: <<key, value>>,
\* a null value unsetting the key
HostChanges == {<<ENV_OUTPUT, <<104>>>>, <<ENV_PRELOAD, NULLP>>}
\* what reading through the null state pointer may yield
GarbageEnvs ==
    {[output |-> NULLP, preload |-> NULLP, flat |-> NULLP],
     [output |-> <<122>>, preload |-> <<122>>, flat |-> <<122>>]}

NoEnv == [output |-> NULLP, preload |-> NULLP, flat |-> NULLP]
NoReal == [sym |-> "", path |-> <<>>, argv |-> NULLARR, env |-> NULLARR]
NoFn == [pc |-> "none"]

\* --------------------------------------------------------------- state
VARIABLES
    cfg,              \* the build: EXEC_LOOP_ON_EXECVE, ENV_FLAT, the transport
    proc,             \* "start", "running", "unloaded", "exited", "crashed", "replaced"
    environ,          \* the ambient environment vector
    state,            \* the process-wide bear_env_t pointer (NULLENV: absent)
    already_reported, \* the re-entrancy flag (ear.c:91)
    stack,            \* the hook frames, the innermost last
    reports,          \* the records opened during the current top-level call
    nsent,            \* the number of records opened so far
    calls,            \* the number of top-level hook calls that returned
    faults,           \* the number of faults injected so far
    flog,             \* the kinds of the faults injected so far
    hostops,          \* the number of host changes of the environment
    fn                \* the input and output of a function checked on its own

vars == <<cfg, proc, environ, state, already_reported, stack, reports, nsent,
          calls, faults, flog, hostops, fn>>

Top == stack[Len(stack)]
SetTop(f) == [stack EXCEPT ![Len(stack)] = f]
Running == proc = "running" /\ stack # <<>>
At(pc) == Running /\ Top.pc = pc

\* the record bear_report_call builds (ear.c:453-454)
Msg(f) == [pid |-> Host.pid, ppid |-> Host.ppid, fun |-> FuncName(f.hook),
           cwd |-> Host.cwd, cmd |-> f.cargv]

\* the payloads the transport writes for a frame's record
Chunks(f) ==
    IF cfg.socket THEN bear_write_message_socket(Msg(f)) ELSE bear_write_message(Msg(f))

NewFrame(h, path, argv, envp) ==
    [hook |-> h, pc |-> "report", path |-> path, argv |-> argv,
     cargv |-> IF Variadic(h) THEN bear_strings_build(argv) ELSE argv,
     envp |-> envp, report_state |-> 0, rep |-> 0,
     active |-> state # NULLENV, entryEnv |-> environ,
     ci |-> 1, wsum |-> 0, current |-> NoEnv, menvp |-> NULLARR,
     real |-> NoReal, realret |-> 0, result |-> 0]

\* a fatal error: perror and exit(EXIT_FAILURE)
Exit(kind) ==
    /\ faults < MaxFaults
    /\ proc' = "exited"
    /\ faults' = faults + 1
    /\ flog' = flog \cup {kind}
    /\ UNCHANGED <<cfg, environ, state, already_reported, stack, reports, nsent,
                   calls, hostops, fn>>

Init ==
    /\ cfg \in [loop : BOOLEAN, flat : BOOLEAN, socket : BOOLEAN]
    /\ proc = "start"
    /\ environ \in InitEnvs
    /\ state = NULLENV
    /\ already_reported = 0
    /\ stack = <<>>
    /\ reports = <<>>
    /\ nsent = 0
    /\ calls = 0
    /\ faults = 0
    /\ flog = {}
    /\ hostops = 0
    /\ fn = NoFn

\* ear.c:155-173
on_load ==
    /\ proc = "start"
    /\ \E fail \in {"none"} \cup (IF faults < MaxFaults
                                  THEN Captured(environ, cfg.flat) ELSE {}) :
       LET current == bear_capture_env_t(environ, cfg.flat, fail)
           nf == IF fail = "none" THEN 0 ELSE 1
       IN  \/ /\ ~bear_is_valid_env_t(<<current>>, cfg.flat)
              /\ state' = NULLENV
              /\ faults' = faults + nf
              /\ flog' = IF nf = 1 THEN flog \cup {"strdup"} ELSE flog
           \/ /\ bear_is_valid_env_t(<<current>>, cfg.flat)
              /\ state' = <<current>>
              /\ UNCHANGED <<faults, flog>>
           \/ /\ bear_is_valid_env_t(<<current>>, cfg.flat)
              /\ faults + nf < MaxFaults
              /\ state' = NULLENV
              /\ faults' = faults + nf + 1
              /\ flog' = flog \cup {"malloc"}
    /\ proc' = "running"
    /\ UNCHANGED <<cfg, environ, already_reported, stack, reports, nsent, calls,
                   hostops, fn>>

\* ear.c:175-181
on_unload ==
    /\ proc = "running"
    /\ stack = <<>>
    /\ state' = NULLENV
    /\ proc' = "unloaded"
    /\ UNCHANGED <<cfg, environ, already_reported, stack, reports, nsent, calls,
                   faults, flog, hostops, fn>>

\* the host sets or unsets one of its own variables between two calls
HostSetenv ==
    /\ proc = "running"
    /\ stack = <<>>
    /\ hostops < MaxHostOps
    /\ \E c \in HostChanges : environ' = RestoreField(environ, c[1], c[2])
    /\ hostops' = hostops + 1
    /\ UNCHANGED <<cfg, proc, state, already_reported, stack, reports, nsent,
                   calls, faults, flog, fn>>

\* the host enters hook h; a variadic hook first builds its vector
\* (bear_strings_build, whose failed allocation is fatal)
Enter(h, path, argv, envp) ==
    /\ proc = "running"
    /\ stack = <<>>
    /\ calls < MaxCalls
    /\ \/ /\ stack' = <<NewFrame(h, path, argv, envp)>>
          /\ UNCHANGED <<cfg, proc, environ, state, already_reported, reports,
                         nsent, calls, faults, flog, hostops, fn>>
       \/ /\ Variadic(h)
          /\ Exit("realloc")

\* ear.c:192-198
execve == \E p \in PathSet, a \in ArgvSet, e \in EnvpSet : Enter("execve", p, a, e)
\* ear.c:205-211
execv == \E p \in PathSet, a \in ArgvSet : Enter("execv", p, a, NULLARR)
\* ear.c:215-221
execvpe == \E p \in PathSet, a \in ArgvSet, e \in EnvpSet : Enter("execvpe", p, a, e)
\* ear.c:225-231
execvp == \E p \in PathSet, a \in ArgvSet : Enter("execvp", p, a, NULLARR)
\* ear.c:235-241
execvP == \E p \in PathSet, a \in ArgvSet : Enter("execvP", p, a, NULLARR)
\* ear.c:248-261
execl == \E p \in PathSet, a \in ArgvSet : Enter("execl", p, a, NULLARR)
\* ear.c:268-280
execlp == \E p \in PathSet, a \in ArgvSet : Enter("execlp", p, a, NULLARR)
\* ear.c:288-302
execle == \E p \in PathSet, a \in ArgvSet, e \in EnvpSet : Enter("execle", p, a, e)
\* ear.c:306-316
posix_spawn ==
    \E p \in PathSet, a \in ArgvSet, e \in EnvpSet : Enter("posix_spawn", p, a, e)
\* ear.c:320-330
posix_spawnp ==
    \E p \in PathSet, a \in ArgvSet, e \in EnvpSet : Enter("posix_spawnp", p, a, e)

\* REPORT_CALL (ear.c:92-97, 103-104) up to the call of bear_send_message
\* (ear.c:443-455)
ReportCall ==
    /\ At("report")
    /\ LET f == [Top EXCEPT !.report_state = IF cfg.loop THEN already_reported ELSE 0]
       IN  \/ /\ cfg.loop /\ already_reported = 1
              /\ stack' = SetTop([f EXCEPT !.pc = "dlsym"])
              /\ UNCHANGED <<already_reported, proc, faults, flog>>
           \/ /\ ~(cfg.loop /\ already_reported = 1)
              /\ state = NULLENV
              /\ stack' = SetTop([f EXCEPT !.pc = "dlsym"])
              /\ already_reported' = IF cfg.loop THEN 1 ELSE already_reported
              /\ UNCHANGED <<proc, faults, flog>>
           \/ /\ ~(cfg.loop /\ already_reported = 1)
              /\ state # NULLENV
              /\ stack' = SetTop([f EXCEPT !.pc = "open"])
              /\ UNCHANGED <<already_reported, proc, faults, flog>>
    /\ UNCHANGED <<cfg, environ, state, reports, nsent, calls, hostops, fn>>

\* getcwd fails in bear_report_call (ear.c:447-451)
GetcwdFails ==
    /\ At("report")
    /\ ~(cfg.loop /\ already_reported = 1)
    /\ state # NULLENV
    /\ Exit("getcwd")

\* bear_send_message up to the first write: mkstemp (ear.c:473-485), or
\* socket and connect (protocol.c:84-92, 97-109)
SendOpen ==
    /\ At("open")
    /\ reports' = Append(reports, [fun |-> FuncName(Top.hook), depth |-> Len(stack),
                                   bytes |-> <<>>, closed |-> FALSE])
    /\ nsent' = nsent + 1
    /\ stack' = SetTop([Top EXCEPT !.pc = "write", !.rep = Len(reports) + 1])
    /\ UNCHANGED <<cfg, proc, environ, state, already_reported, calls, faults,
                   flog, hostops, fn>>

\* asprintf or mkstemp fails; socket or connect fails
SendOpenFails ==
    /\ At("open")
    /\ Exit("open")

\* one write of the record: a dprintf of bear_write_message (ear.c:463-469,
\* its result ignored), or one write(2) of socket_write (protocol.c:38-46,
\* whose -1 the callers ignore, protocol.c:52, 58, 61, 68)
SendWrite ==
    /\ At("write")
    /\ Top.ci <= Len(Chunks(Top))
    /\ LET f == Top
           chunk == Chunks(f)[f.ci]
           left == Drop(chunk, f.wsum)
           put(bs) == [reports EXCEPT ![f.rep].bytes = @ \o bs]
       IN  \/ \* the whole payload, or all that was left of it, is written
              /\ reports' = put(left)
              /\ stack' = SetTop([f EXCEPT !.ci = @ + 1, !.wsum = 0])
              /\ UNCHANGED <<faults, flog>>
           \/ \* write(2) takes one byte only; socket_write goes round again
              /\ cfg.socket
              /\ Len(left) > 1
              /\ faults < MaxFaults
              /\ reports' = put(Take(left, 1))
              /\ stack' = SetTop([f EXCEPT !.wsum = @ + 1])
              /\ faults' = faults + 1
              /\ flog' = flog \cup {"short"}
           \/ \* the write fails: nothing checks the result
              /\ faults < MaxFaults
              /\ reports' = reports
              /\ stack' = SetTop([f EXCEPT !.ci = @ + 1, !.wsum = 0])
              /\ faults' = faults + 1
              /\ flog' = flog \cup {"write"}
    /\ UNCHANGED <<cfg, proc, environ, state, already_reported, nsent, calls,
                   hostops, fn>>

\* close(fd), free(cwd), and the end of REPORT_CALL (ear.c:487, 457, 96)
SendClose ==
    /\ At("write")
    /\ Top.ci > Len(Chunks(Top))
    /\ reports' = [reports EXCEPT ![Top.rep].closed = TRUE]
    /\ already_reported' = IF cfg.loop THEN 1 ELSE already_reported
    /\ stack' = SetTop([Top EXCEPT !.pc = "dlsym"])
    /\ UNCHANGED <<cfg, proc, environ, state, nsent, calls, faults, flog,
                   hostops, fn>>

\* DLSYM (ear.c:109-118)
Dlsym ==
    /\ At("dlsym")
    /\ stack' = SetTop([Top EXCEPT !.pc = "prepare"])
    /\ UNCHANGED <<cfg, proc, environ, state, already_reported, reports, nsent,
                   calls, faults, flog, hostops, fn>>

DlsymFails ==
    /\ At("dlsym")
    /\ Exit("dlsym")

\* call_execve, call_execvpe, call_posix_spawn, call_posix_spawnp up to the
\* real call (ear.c:343, 357, 412, 433)
PrepareEnvp ==
    /\ At("prepare")
    /\ ~Ambient(Top.hook)
    /\ LET envp == IF UsesEnviron(Top.hook) THEN environ ELSE Top.envp
       IN  stack' = SetTop([Top EXCEPT
                               !.menvp = bear_update_environment(envp, state, cfg.flat),
                               !.pc = "call"])
    /\ UNCHANGED <<cfg, proc, environ, state, already_reported, reports, nsent,
                   calls, faults, flog, hostops, fn>>

\* malloc, strdup, asprintf or realloc fails under bear_update_environment
PrepareEnvpFails ==
    /\ At("prepare")
    /\ ~Ambient(Top.hook)
    /\ Exit("alloc")

\* call_execvp, call_execvP up to the real call (ear.c:370-372, 388-390):
\* bear_capture_env_t(&current), then bear_restore_env_t(state)
PrepareAmbient ==
    /\ At("prepare")
    /\ Ambient(Top.hook)
    /\ \E fail \in {"none"} \cup (IF faults < MaxFaults
                                  THEN Captured(environ, cfg.flat) ELSE {}) :
       LET current == bear_capture_env_t(environ, cfg.flat, fail)
           f == [Top EXCEPT !.current = current, !.pc = "call"]
       IN  /\ faults' = IF fail = "none" THEN faults ELSE faults + 1
           /\ flog' = IF fail = "none" THEN flog ELSE flog \cup {"strdup"}
           /\ \/ /\ state # NULLENV
                 /\ environ' = bear_restore_env_t(state[1], environ, cfg.flat)
                 /\ stack' = SetTop(f)
                 /\ proc' = proc
              \/ \* state == 0: env->output reads through a null pointer
                 /\ state = NULLENV
                 /\ \/ /\ proc' = "crashed"
                       /\ UNCHANGED <<environ, stack>>
                    \/ /\ \E g \in GarbageEnvs :
                             environ' = bear_restore_env_t(g, environ, cfg.flat)
                       /\ stack' = SetTop(f)
                       /\ proc' = proc
    /\ UNCHANGED <<cfg, state, already_reported, reports, nsent, calls, hostops, fn>>

\* setenv or unsetenv fails in bear_restore_env_t (ear.c:518-519, 524-525, 531-532)
RestoreFails ==
    /\ \/ At("prepare") /\ Ambient(Top.hook) /\ state # NULLENV
       \/ At("in_real") /\ Ambient(Top.hook)
    /\ Exit("setenv")

\* the real function is entered (ear.c:344, 358, 373, 391, 414, 435)
RealCall ==
    /\ At("call")
    /\ stack' = SetTop([Top EXCEPT
                           !.real = [sym |-> Forward(Top.hook), path |-> Top.path,
                                     argv |-> Top.cargv,
                                     env |-> IF Ambient(Top.hook) THEN environ
                                             ELSE Top.menvp],
                           !.pc = "in_real"])
    /\ UNCHANGED <<cfg, proc, environ, state, already_reported, reports, nsent,
                   calls, faults, flog, hostops, fn>>

\* the real function returns r; then bear_strings_release(menvp)
\* (ear.c:345), or bear_restore_env_t(&current) and
\* bear_release_env_t(&current) (ear.c:374-375); then REPORT_FAILED_CALL and
\* the release of a built vector (ear.c:257-259)
RealReturn ==
    /\ At("in_real")
    /\ \E r \in RetVals :
          stack' = SetTop([Top EXCEPT !.realret = r, !.result = CallResult(r),
                                      !.pc = "return"])
    /\ environ' = IF Ambient(Top.hook)
                  THEN bear_restore_env_t(Top.current, environ, cfg.flat)
                  ELSE environ
    /\ already_reported' = IF cfg.loop
                           THEN ReportFailedFlag(Top.report_state, already_reported)
                           ELSE already_reported
    /\ UNCHANGED <<cfg, proc, state, reports, nsent, calls, faults, flog,
                   hostops, fn>>

\* a real exec function replaces the process image
RealReplace ==
    /\ At("in_real")
    /\ Top.real.sym \notin {"posix_spawn", "posix_spawnp"}
    /\ proc' = "replaced"
    /\ UNCHANGED <<cfg, environ, state, already_reported, stack, reports, nsent,
                   calls, faults, flog, hostops, fn>>

\* on the platforms of EXEC_LOOP_ON_EXECVE (ear.c:86-88) the real function
\* itself calls execve, which is the hook again
NestedExecve ==
    /\ At("in_real")
    /\ cfg.loop
    /\ Len(stack) < MaxDepth
    /\ stack' = Append(stack, NewFrame("execve", Top.real.path, Top.real.argv,
                                       Top.real.env))
    /\ UNCHANGED <<cfg, proc, environ, state, already_reported, reports, nsent,
                   calls, faults, flog, hostops, fn>>

\* the hook returns result to its caller
Return ==
    /\ At("return")
    /\ stack' = SubSeq(stack, 1, Len(stack) - 1)
    /\ calls' = IF Len(stack) = 1 THEN calls + 1 ELSE calls
    /\ reports' = IF Len(stack) = 1 THEN <<>> ELSE reports
    /\ UNCHANGED <<cfg, proc, environ, state, already_reported, nsent, faults,
                   flog, hostops, fn>>

Next ==
    \/ on_load
    \/ on_unload
    \/ HostSetenv
    \/ execve
    \/ execv
    \/ execvpe
    \/ execvp
    \/ execvP
    \/ execl
    \/ execlp
    \/ execle
    \/ posix_spawn
    \/ posix_spawnp
    \/ ReportCall
    \/ GetcwdFails
    \/ SendOpen
    \/ SendOpenFails
    \/ SendWrite
    \/ SendClose
    \/ Dlsym
    \/ DlsymFails
    \/ PrepareEnvp
    \/ PrepareEnvpFails
    \/ PrepareAmbient
    \/ RestoreFails
    \/ RealCall
    \/ RealReturn
    \/ RealReplace
    \/ NestedExecve
    \/ Return

Spec == Init /\ [][Next]_vars

\* ------------------------------------------ functions checked on their own
\* the main variables while a function is checked on its own
Off ==
    /\ cfg = [loop |-> FALSE, flat |-> FALSE, socket |-> FALSE]
    /\ proc = "off"
    /\ environ = <<NULLP>>
    /\ state = NULLENV
    /\ already_reported = 0
    /\ stack = <<>>
    /\ reports = <<>>
    /\ nsent = 0
    /\ calls = 0
    /\ faults = 0
    /\ flog = {}
    /\ hostops = 0

main == <<cfg, proc, environ, state, already_reported, stack, reports, nsent,
          calls, faults, flog, hostops>>

\* the sequences over S of length at most n
SeqsUpTo(S, n) == UNION {[1..k -> S] : k \in 0..n}

\* entries of an environment vector: P=l P=h O=d O=h F=1 X=1 PX=1 P
EnvEntries ==
    {<<80, 61, 108>>, <<80, 61, 104>>, <<79, 61, 100>>, <<79, 61, 104>>,
     <<70, 61, 49>>, <<88, 61, 49>>, <<80, 88, 61, 49>>, <<80>>}

\* valid environment states
EnvStates ==
    {[output |-> <<100>>, preload |-> <<108>>, flat |-> <<49>>],
     [output |-> <<104>>, preload |-> <<104>>, flat |-> <<>>]}

InitEnv ==
    /\ Off
    /\ \E v \in SeqsUpTo(EnvEntries, MaxEnvLen), e \in EnvStates, fl \in BOOLEAN,
          null \in BOOLEAN :
          fn = [pc |-> "in", envp |-> IF null /\ v = <<>> THEN NULLARR ELSE v \o <<NULLP>>,
                env |-> e, flat |-> fl, out |-> NULLARR]

\* bear_update_environment(envp, state) (ear.c:343, 548-559)
UpdateEnvironment ==
    /\ fn.pc = "in"
    /\ fn' = [fn EXCEPT !.pc = "out",
                        !.out = bear_update_environment(fn.envp, <<fn.env>>, fn.flat)]
    /\ UNCHANGED main

SpecEnv == InitEnv /\ [][UpdateEnvironment]_vars

\* strings of a record: cc, the empty string, a, -c, and one holding 0x1F
ArgPool == {<<99, 99>>, <<>>, <<97>>, <<45, 99>>, <<97, 31, 98>>}
\* working directories: /t, one holding 0x1E, and a null pointer
CwdPool == {<<47, 116>>, <<47, 30, 116>>, NULLP}

\* the records: the argument vector any sequence of strings with its
\* sentinel, or the null array
Msgs ==
    {[pid |-> p, ppid |-> 1, fun |-> FuncName(h), cwd |-> c, cmd |-> a] :
        p \in {7, 300}, h \in {"execve", "execl"}, c \in CwdPool,
        a \in {v \o <<NULLP>> : v \in SeqsUpTo(ArgPool, MaxArgs)} \cup {NULLARR}}

InitMsg ==
    /\ Off
    /\ \E m \in Msgs : fn = [pc |-> "in", msg |-> m, out |-> <<>>]

\* bear_write_message(fd, e) of ear.c:460-471, every dprintf succeeding;
\* %s of a null pointer is not defined, and no record has one (ear.c:448)
WriteFile ==
    /\ fn.pc = "in"
    /\ fn.msg.cwd # NULLP
    /\ fn' = [fn EXCEPT !.pc = "file", !.out = Flatten(bear_write_message(fn.msg))]
    /\ UNCHANGED main

\* bear_write_message(fd, e) of protocol.c:75-82, every write succeeding
WriteSocket ==
    /\ fn.pc = "in"
    /\ fn' = [fn EXCEPT !.pc = "sock",
                        !.out = Flatten(bear_write_message_socket(fn.msg))]
    /\ UNCHANGED main

NextMsg == WriteFile \/ WriteSocket

SpecMsg == InitMsg /\ [][NextMsg]_vars
\* ------------------------------------------------------------- claims
\* the recognized keys of a build, and the state's value for one
Keys(flat) ==
    IF flat THEN {ENV_OUTPUT, ENV_PRELOAD, ENV_FLAT} ELSE {ENV_OUTPUT, ENV_PRELOAD}
Field(env, key) ==
    CASE key = ENV_OUTPUT -> env.output
      [] key = ENV_PRELOAD -> env.preload
      [] OTHER -> env.flat
\* the entries of a vector that set no recognized key, in order
Unrelated(v, flat) ==
    SelectSeq(Strings(v), LAMBDA s : \A k \in Keys(flat) : ~Matches(s, k))
\* the positions of a vector's entries that set key
Positions(v, key) == {i \in 1..Len(Strings(v)) : Matches(v[i], key)}
\* the frames of the stack
Frames == {stack[i] : i \in 1..Len(stack)}
\* the environment a hook hands on when nothing is rewritten
HostEnv(f) ==
    IF Ambient(f.hook) \/ UsesEnviron(f.hook) THEN f.entryEnv ELSE f.envp

\* C1: with the state absent because the required variables were missing
\* at load, every hook sends no report, leaves the ambient environment
\* alone, never crashes, and hands the real function the host's path,
\* argument vector and (content-equal) environment.
InactivePassthrough ==
    \A f \in Frames :
        (~f.active /\ flog = {}) =>
            /\ proc # "crashed"
            /\ f.rep = 0 /\ reports = <<>> /\ nsent = 0
            /\ environ = f.entryEnv
            /\ f.pc \in {"in_real", "return"} =>
                  /\ f.real.sym = Forward(f.hook)
                  /\ f.real.path = f.path
                  /\ Strings(f.real.argv) = Strings(f.argv)
                  /\ Strings(f.real.env) = Strings(HostEnv(f))

\* C2: the vector bear_update_environment returns holds exactly one entry
\* per recognized key, with the state's value, at the position of the first
\* entry of that key in the input or after the input's entries if it had
\* none, and keeps the other entries in order.
UpdateExactlyOnce ==
    fn.pc = "out" =>
        /\ fn.out # NULLARR /\ fn.out[Len(fn.out)] = NULLP
        /\ Len(Strings(fn.out)) = Len(fn.out) - 1
        /\ \A k \in Keys(fn.flat) :
              /\ Cardinality(Positions(fn.out, k)) = 1
              /\ \A i \in Positions(fn.out, k) :
                    /\ fn.out[i] = KeyValue(k, Field(fn.env, k))
                    /\ IF Positions(fn.envp, k) # {}
                       THEN \A j \in Positions(fn.envp, k) : i <= j
                       ELSE i > Len(Strings(fn.envp))
        /\ Unrelated(fn.out, fn.flat) = Unrelated(fn.envp, fn.flat)

\* C3: under EXEC_LOOP_ON_EXECVE, in the active state, only the outermost
\* hook reports, once; a nested hook's return leaves the flag set while the
\* outer real call is running; the outer hook's return clears it, and every
\* top-level call sends exactly one report.
ReentrancyGuard ==
    (cfg.loop /\ state # NULLENV) =>
        /\ Len(reports) <= 1
        /\ \A i \in 1..Len(reports) : reports[i].depth = 1
        /\ \A i \in 2..Len(stack) :
              stack[i].rep = 0 /\ (stack[i].pc # "report" => stack[i].report_state = 1)
        /\ stack = <<>> => already_reported = 0 /\ nsent = calls
        /\ stack # <<>> =>
              /\ nsent = calls + Len(reports)
              /\ stack[1].pc \in {"dlsym", "prepare", "call", "in_real"} =>
                    already_reported = 1 /\ Len(reports) = 1 /\ stack[1].report_state = 0
              /\ stack[1].pc = "return" => already_reported = 0 /\ Len(reports) = 1

\* C3's case: a nested hook has returned into the second top-level call
ReentrancyGuardWitness ==
    /\ cfg.loop /\ state # NULLENV
    /\ calls = 1 /\ nsent = 2
    /\ Len(stack) = 2 /\ stack[2].pc = "return" /\ stack[1].pc = "in_real"

\* C4: in the active state a top-level hook has sent its record completely,
\* and closed the destination, before it resolves and enters the real
\* function; the record is the only one, and names the hook entered.
ReportBeforeRealCall ==
    (stack # <<>> /\ stack[1].active
        /\ stack[1].pc \in {"prepare", "call", "in_real", "return"}) =>
        /\ Len(reports) = 1 /\ stack[1].rep = 1
        /\ reports[1].closed
        /\ reports[1].fun = FuncName(stack[1].hook)
        /\ reports[1].bytes = Flatten(Chunks(stack[1]))

\* C5: in the active state, while the real function of execvp, execlp or
\* execvP runs the ambient environment holds the state's value for every
\* recognized key; when the hook returns, every recognized key holds what it
\* held when the hook was entered, and no other variable has changed.
AmbientBracket ==
    \A f \in Frames :
        (f.active /\ Ambient(f.hook)) =>
            /\ f.pc = "in_real" =>
                  \A k \in Keys(cfg.flat) : getenv(environ, k) = Field(state[1], k)
            /\ f.pc = "return" =>
                  /\ \A k \in Keys(cfg.flat) : getenv(environ, k) = getenv(f.entryEnv, k)
                  /\ Unrelated(environ, cfg.flat) = Unrelated(f.entryEnv, cfg.flat)

\* C6: a hook returns the value its real function returned, whatever the
\* value and whether the state is present or absent, and the real function
\* was given the host's path and argument vector.
ResultPassthrough ==
    \A f \in Frames :
        /\ f.pc = "return" => f.result = f.realret
        /\ f.pc \in {"in_real", "return"} =>
              /\ f.real.sym = Forward(f.hook)
              /\ f.real.path = f.path
              /\ Strings(f.real.argv) = Strings(f.argv)
        /\ (f = Top /\ f.pc = "return") => proc = "running"

\* C6's case: hooks have returned a failure and a positive value, in the
\* active and in the inactive state
ResultPassthroughWitness ==
    /\ stack # <<>> /\ Top.pc = "return"
    /\ Top.realret = 2 /\ Top.hook = "posix_spawn" /\ Top.active
    /\ calls = 1

\* C7: a failed open, connect or write of the transport ends the process,
\* and a short write is made good before the next field is written.
TransportFailureIsFatal ==
    /\ ("open" \in flog \/ "write" \in flog) => proc = "exited"
    /\ \A f \in Frames :
          (f.rep # 0 /\ f.pc = "write" /\ f.wsum = 0 /\ "write" \notin flog) =>
              reports[f.rep].bytes = Flatten(SubSeq(Chunks(f), 1, f.ci - 1))

\* C8: a failed allocation in the environment state manager ends the
\* process.
AllocationFailureIsFatal ==
    (flog \cap {"strdup", "malloc", "alloc"}) # {} => proc = "exited"
\* beside C2: the same holds of every vector that sets no recognized key
\* more than once
UpdateExactlyOnceOfDistinct ==
    (fn.pc = "out" /\ \A k \in Keys(fn.flat) : Cardinality(Positions(fn.envp, k)) <= 1)
        => UpdateExactlyOnce

\* the reader of a file-drop record: four fields, each up to the next 0x1E,
\* then the arguments, each up to the next 0x1F
IndexOf(bs, sep) ==
    IF \E i \in 1..Len(bs) : bs[i] = sep
    THEN CHOOSE i \in 1..Len(bs) : bs[i] = sep /\ \A j \in 1..(i - 1) : bs[j] # sep
    ELSE 0
Before(bs, sep) == IF IndexOf(bs, sep) = 0 THEN bs ELSE SubSeq(bs, 1, IndexOf(bs, sep) - 1)
After(bs, sep) == IF IndexOf(bs, sep) = 0 THEN <<>> ELSE Drop(bs, IndexOf(bs, sep))
RECURSIVE SplitOn(_, _)
SplitOn(bs, sep) ==
    IF bs = <<>> THEN <<>> ELSE <<Before(bs, sep)>> \o SplitOn(After(bs, sep), sep)
RECURSIVE ParseD(_, _)
ParseD(ds, acc) ==
    IF ds = <<>> THEN acc
    ELSE IF Head(ds) \in 48..57 THEN ParseD(Tail(ds), 10 * acc + (Head(ds) - 48))
    ELSE -1
FileDecode(bs) ==
    LET r1 == After(bs, RS)
        r2 == After(r1, RS)
        r3 == After(r2, RS)
        r4 == After(r3, RS)
    IN  [pid |-> ParseD(Before(bs, RS), 0), ppid |-> ParseD(Before(r1, RS), 0),
         fun |-> Before(r2, RS), cwd |-> Before(r3, RS), argv |-> SplitOn(r4, US)]

\* the fields of a record as a reader is to see them
Fields(m) ==
    [pid |-> m.pid, ppid |-> m.ppid, fun |-> m.fun,
     cwd |-> IF m.cwd = NULLP THEN <<>> ELSE m.cwd, argv |-> Strings(m.cmd)]

\* no string of the record holds a separator of the file-drop format
SeparatorFree(m) ==
    \A str \in {m.fun, m.cwd} \cup {m.cmd[i] : i \in 1..bear_strings_length(m.cmd)} :
        \A i \in 1..Len(str) : str[i] \notin {RS, US}

\* C9: reading back the bytes of the file-drop record of any call record
\* yields its five fields, the arguments in number and order.
FileRoundTrip ==
    fn.pc = "file" => FileDecode(fn.out) = Fields(fn.msg)

\* C9, amended: the same, for the records none of whose strings holds 0x1E
\* or 0x1F; the bytes end with the separator of the last field written.
FileRoundTripSeparatorFree ==
    (fn.pc = "file" /\ SeparatorFree(fn.msg)) =>
        /\ FileDecode(fn.out) = Fields(fn.msg)
        /\ fn.out[Len(fn.out)] = IF Strings(fn.msg.cmd) = <<>> THEN RS ELSE US
        /\ Cardinality({i \in 1..Len(fn.out) : fn.out[i] = RS}) = 4
        /\ Cardinality({i \in 1..Len(fn.out) : fn.out[i] = US}) = Len(Strings(fn.msg.cmd))

\* C9's case: a record of two arguments, one of them empty, was written
FileRoundTripWitness ==
    /\ fn.pc = "file"
    /\ SeparatorFree(fn.msg)
    /\ fn.msg.pid = 300
    /\ Strings(fn.msg.cmd) = <<<<99, 99>>, <<>>>>

\* the reader of a socket record
RECURSIVE Num(_)
Num(bs) == IF bs = <<>> THEN 0 ELSE Head(bs) + 256 * Num(Tail(bs))
\* a length-prefixed string at the head of bs, and what follows it
ReadString(bs) ==
    LET n == Num(Take(bs, SizeWidth))
    IN  [str |-> SubSeq(bs, SizeWidth + 1, SizeWidth + n), rest |-> Drop(bs, SizeWidth + n)]
RECURSIVE ReadStrings(_, _)
ReadStrings(bs, count) ==
    IF count = 0 THEN [strs |-> <<>>, rest |-> bs]
    ELSE LET one == ReadString(bs)
             more == ReadStrings(one.rest, count - 1)
         IN  [strs |-> <<one.str>> \o more.strs, rest |-> more.rest]
SockDecode(bs) ==
    LET r1 == Drop(bs, PidWidth)
        r2 == Drop(r1, PidWidth)
        fun == ReadString(r2)
        cwd == ReadString(fun.rest)
        args == ReadStrings(Drop(cwd.rest, SizeWidth), Num(Take(cwd.rest, SizeWidth)))
    IN  [pid |-> Num(Take(bs, PidWidth)), ppid |-> Num(Take(r1, PidWidth)),
         fun |-> fun.str, cwd |-> cwd.str, argv |-> args.strs, rest |-> args.rest]

RECURSIVE SumLen(_)
SumLen(ss) == IF ss = <<>> THEN 0 ELSE Len(Head(ss)) + SumLen(Tail(ss))

\* C10: reading back the bytes of the socket record of any call record
\* yields its fields and leaves no byte over; the record is two fixed-width
\* ids, then a length and the bytes of each string with no terminator, the
\* arguments after their count; a null or empty string is a zero length
\* alone, and no argument is a zero count alone.
SocketRoundTrip ==
    fn.pc = "sock" =>
        LET f == Fields(fn.msg)
        IN  /\ SockDecode(fn.out) = [pid |-> f.pid, ppid |-> f.ppid, fun |-> f.fun,
                                     cwd |-> f.cwd, argv |-> f.argv, rest |-> <<>>]
            /\ Len(fn.out) = 2 * PidWidth + (3 + Len(f.argv)) * SizeWidth
                             + Len(f.fun) + Len(f.cwd) + SumLen(f.argv)
            /\ f.argv = <<>> =>
                  SubSeq(fn.out, Len(fn.out) - SizeWidth + 1, Len(fn.out))
                      = [i \in 1..SizeWidth |-> 0]

\* C10's case: a record with no argument and a null working directory, and
\* one with an empty argument, were written
SocketRoundTripWitness ==
    /\ fn.pc = "sock"
    /\ fn.msg.pid = 300
    /\ fn.msg.cwd = NULLP
    /\ Strings(fn.msg.cmd) = <<>>

\* ------------------------------------------------------------ the heap
\* A heap is [mem, bad, ret]: mem the blocks ever allocated, a pointer the
\* index of its block and NULL the null pointer; bad the frees of a block
\* that was not live; ret the pointer the last function returned.  A block
\* is [own, live, val]: val the bytes of a string, or the slots of an array.
NULL == 0

Block(own, val) == [own |-> own, live |-> TRUE, val |-> val]

\* malloc, strdup, asprintf: a fresh block of the library, its address ret
Alloc(h, val) ==
    [h EXCEPT !.mem = Append(@, Block("lib", val)), !.ret = Len(h.mem) + 1]

\* free(p): free(0) does nothing; a block freed twice is recorded
free(h, p) ==
    IF p = NULL THEN h
    ELSE IF h.mem[p].live THEN [h EXCEPT !.mem[p].live = FALSE]
    ELSE [h EXCEPT !.bad = @ \cup {p}]

\* the string p points to
Str(h, p) == h.mem[p].val

\* ear.c:493-502 on the heap: every variable that is set is strdup'ed, in
\* the order output, preload, flat; vals gives getenv's answers
bear_capture_env_t_mem(vals, flat) ==
    LET fields  == IF flat THEN <<"output", "preload", "flat">>
                   ELSE <<"output", "preload">>
        present == SelectSeq(fields, LAMBDA f : vals[f] # NULLP)
        ptr(f)  == IF f \in {present[i] : i \in 1..Len(present)}
                   THEN CHOOSE i \in 1..Len(present) : present[i] = f
                   ELSE NULL
    IN  [h   |-> [mem |-> [i \in 1..Len(present) |-> Block("lib", vals[present[i]])],
                  bad |-> {}, ret |-> NULL],
         env |-> [output |-> ptr("output"), preload |-> ptr("preload"),
                  flat |-> ptr("flat")]]

\* ear.c:537-546: the fields are freed and keep their values
bear_release_env_t_mem(h, env, flat) ==
    LET h1 == IF env.output # NULL THEN free(h, env.output) ELSE h
        h2 == IF env.preload # NULL THEN free(h1, env.preload) ELSE h1
    IN  IF flat /\ env.flat # NULL THEN free(h2, env.flat) ELSE h2

\* values of the recognized variables: unset, d, h
EnvVals == {NULLP, <<100>>, <<104>>}

\* captured states, complete or not
ReleaseInputs ==
    {[op |-> "release", pc |-> "captured", n |-> 0, flat |-> fl,
      h |-> bear_capture_env_t_mem(v, fl).h, env |-> bear_capture_env_t_mem(v, fl).env,
      h1 |-> bear_capture_env_t_mem(v, fl).h] :
        v \in [{"output", "preload", "flat"} -> EnvVals], fl \in BOOLEAN}

\* bear_release_env_t(env) called on the same env again (ear.c:537-546); a
\* block freed twice is undefined: the allocator aborts, or goes on with
\* its bookkeeping damaged
ReleaseEnv ==
    /\ fn.op = "release"
    /\ fn.pc \in {"captured", "released"}
    /\ fn.n < 2
    /\ LET h2 == bear_release_env_t_mem(fn.h, fn.env, fn.flat)
       IN  \/ fn' = [fn EXCEPT !.pc = "released", !.n = @ + 1, !.h = h2,
                               !.h1 = IF fn.n = 0 THEN h2 ELSE @]
           \/ /\ h2.bad # {}
              /\ fn' = [fn EXCEPT !.pc = "crashed", !.n = @ + 1, !.h = h2]
    /\ UNCHANGED main

\* C11: bear_release_env_t called twice in a row on the same environment
\* state leaves the heap as the first call left it: the second call ends
\* normally and frees no block that was already freed.
ReleaseIdempotent ==
    (fn.op = "release" /\ fn.n = 2) =>
        /\ fn.pc = "released"
        /\ fn.h.bad = {}
        /\ fn.h.mem = fn.h1.mem

\* the fields a build requires
Required(flat) == {"output", "preload"} \cup (IF flat THEN {"flat"} ELSE {})

\* every required field of env is present
Complete(env, flat) == \A k \in Required(flat) : env[k] # NULLP

\* bear_is_valid_env_t is true exactly of the states all of whose required
\* fields are non-null, and false of the null pointer
ValidIffComplete ==
    /\ \A e \in [{"output", "preload", "flat"} -> EnvVals], fl \in BOOLEAN :
          bear_is_valid_env_t(<<e>>, fl) <=> Complete(e, fl)
    /\ \A fl \in BOOLEAN : ~bear_is_valid_env_t(NULLENV, fl)

\* C12: from load through any hook calls to unload the process-wide state is
\* absent or complete, so that no capture that fails validation is ever
\* installed; bear_is_valid_env_t is true exactly of the states all of whose
\* required fields are non-null; before load and after unload the state is
\* absent.
EnvStateInvariant ==
    /\ state = NULLENV \/ Complete(state[1], cfg.flat)
    /\ proc \in {"start", "unloaded"} => state = NULLENV
    /\ ValidIffComplete

\* beside C12: what on_load installs is the capture of the environment at
\* load, and the state changes at load and at unload only
EnvStateSteps ==
    [][/\ (proc = "start" /\ state' # NULLENV) =>
             state' = <<bear_capture_env_t(environ, cfg.flat, "none")>>
       /\ state' # state => (proc = "start" \/ proc' = "unloaded")]_vars

\* C12's case: a state was installed at load, a hook reported and returned
\* under it, and the library was unloaded
EnvStateInvariantWitness ==
    /\ proc = "unloaded"
    /\ calls >= 1
    /\ nsent >= 1
    /\ state = NULLENV

\* ------------------------------------------- string arrays on the heap
\* what a slot that was never written holds
Uninit == -1

\* a block of the given owner, its address ret
AllocAs(h, own, val) ==
    [h EXCEPT !.mem = Append(@, Block(own, val)), !.ret = Len(h.mem) + 1]

\* realloc(p, n slots): the old slots are kept and the new ones are not
\* written; the block stays where it is or moves, the old one then freed
realloc(h, p, n, moved) ==
    LET old   == IF p = NULL THEN <<>> ELSE Str(h, p)
        slots == [i \in 1..n |-> IF i <= Len(old) THEN old[i] ELSE Uninit]
    IN  IF p = NULL \/ moved THEN Alloc(free(h, p), slots)
        ELSE [h EXCEPT !.mem[p].val = slots, !.ret = p]

\* ear.c:651-656: the slots before the first null one (all of them when
\* none is null: the loop then runs off the block)
bear_strings_length_mem(h, in) ==
    IF in = NULL THEN 0
    ELSE Cardinality({i \in 1..Len(Str(h, in)) :
                         \A j \in 1..i : Str(h, in)[j] # NULL})

\* an append that leaves the slot after the new element unwritten
bear_strings_append_mem_unterminated(h, in, e, moved) ==
    LET size == bear_strings_length_mem(h, in)
        r    == realloc(h, in, size + 2, moved)
    IN  [r EXCEPT !.mem[r.ret].val[size + 1] = e]

\* ear.c:638-649 (realloc succeeding)
bear_strings_append_mem(h, in, e, moved) ==
    LET size == bear_strings_length_mem(h, in)
        r    == realloc(h, in, size + 2, moved)
    IN  [r EXCEPT !.mem[r.ret].val[size + 1] = e, !.mem[r.ret].val[size + 2] = NULL]

\* stringarray.c:71-86 (realloc succeeding)
stringarray_bear_strings_append(h, in, e, moved) ==
    IF e = NULL THEN [h EXCEPT !.ret = in]
    ELSE bear_strings_append_mem(h, in, e, moved)

\* an array of the given owner holding the strings strs, each its own
\* block, with extra unwritten slots after the sentinel; its address ret
ArrayHeap(h, own, strs, extra) ==
    LET base == Len(h.mem)
        n    == Len(strs)
    IN  [h EXCEPT
            !.mem = @ \o [i \in 1..n |-> Block(own, strs[i])]
                      \o <<Block(own, [i \in 1..(n + 1 + extra) |->
                                          IF i <= n THEN base + i
                                          ELSE IF i = n + 1 THEN NULL ELSE Uninit])>>,
            !.ret = base + n + 1]

EmptyHeap == [mem |-> <<>>, bad |-> {}, ret |-> NULL]

\* strings of an array: a, the empty string
StrPool == {<<97>>, <<>>}

\* owned arrays (the null array among them) and an element to append (a
\* null pointer among them)
AppendInputs ==
    {LET h1 == IF null THEN EmptyHeap ELSE ArrayHeap(EmptyHeap, "lib", v, x)
         h2 == IF e = NULLP THEN [h1 EXCEPT !.ret = NULL] ELSE AllocAs(h1, "lib", e)
     IN  [op |-> "append", pc |-> "in", h |-> h2, h0 |-> h2,
          in |-> IF null THEN NULL ELSE h1.ret, e |-> h2.ret] :
        v \in SeqsUpTo(StrPool, MaxArgs), x \in 0..1, null \in BOOLEAN,
        e \in StrPool \cup {NULLP}}

\* bear_strings_append(in, e) of ear.c:638-649
Append_ear ==
    /\ fn.op = "append"
    /\ fn.pc = "in"
    /\ \E moved \in BOOLEAN :
          fn' = [fn EXCEPT !.pc = "appended",
                           !.h = bear_strings_append_mem(fn.h, fn.in, fn.e, moved)]
    /\ UNCHANGED main

\* bear_strings_append(in, e) of stringarray.c:71-86
Append_stringarray ==
    /\ fn.op = "append"
    /\ fn.pc = "in"
    /\ \E moved \in BOOLEAN :
          fn' = [fn EXCEPT !.pc = "appended",
                           !.h = stringarray_bear_strings_append(fn.h, fn.in, fn.e, moved)]
    /\ UNCHANGED main

\* realloc returns null: perror and exit (ear.c:642-645)
AppendFails ==
    /\ fn.op = "append"
    /\ fn.pc = "in"
    /\ fn' = [fn EXCEPT !.pc = "exited"]
    /\ UNCHANGED main

\* C13: after bear_strings_append(array, e), for any owned array (the null
\* one and the empty one included) and any string e, the length is the
\* previous length plus one, the earlier slots hold the strings they held,
\* live and unchanged, the new element is last and the slot after it is the
\* sentinel.  (A null e is no element: the length then stays what it was.)
AppendLength ==
    (fn.op = "append" /\ fn.pc = "appended") =>
        LET r   == fn.h.ret
            old == bear_strings_length_mem(fn.h0, fn.in)
        IN  /\ fn.h.bad = {}
            /\ fn.e # NULL =>
                  /\ r # NULL /\ fn.h.mem[r].live
                  /\ bear_strings_length_mem(fn.h, r) = old + 1
                  /\ \A i \in 1..old :
                        /\ Str(fn.h, r)[i] = Str(fn.h0, fn.in)[i]
                        /\ fn.h.mem[Str(fn.h, r)[i]] = fn.h0.mem[Str(fn.h0, fn.in)[i]]
                  /\ Str(fn.h, r)[old + 1] = fn.e
                  /\ fn.h.mem[fn.e] = fn.h0.mem[fn.e]
                  /\ Str(fn.h, r)[old + 2] = NULL
            /\ fn.e = NULL => bear_strings_length_mem(fn.h, r) = old

\* C13's case: the empty string was appended to an array of two strings,
\* which realloc moved
AppendLengthWitness ==
    /\ fn.op = "append"
    /\ fn.pc = "appended"
    /\ fn.in # NULL
    /\ bear_strings_length_mem(fn.h0, fn.in) = 2
    /\ fn.e # NULL
    /\ fn.h.ret # fn.in
    /\ Str(fn.h, fn.e) = <<>>

\* a build that stores the caller's pointers instead of copies of the strings
bear_strings_build_mem_shared(h, args, moved) ==
    LET n == bear_strings_length_mem([h EXCEPT !.mem = <<Block("host", args)>>], 1)
        r == realloc(h, NULL, n + 1, moved)
    IN  [r EXCEPT !.mem[r.ret].val = [i \in 1..(n + 1) |-> IF i <= n THEN args[i] ELSE NULL]]

\* ear.c:593-605: the loop of bear_strings_build from the k-th argument on,
\* result holding size copies so far
RECURSIVE BuildLoop(_, _, _, _, _, _)
BuildLoop(h, result, size, args, k, moved) ==
    IF args[k] = NULL THEN [h EXCEPT !.ret = result]
    ELSE LET r == realloc(h, result, size + 1, moved)
             c == Alloc(r, Str(r, args[k]))
         IN  BuildLoop([c EXCEPT !.mem[r.ret].val[size + 1] = c.ret],
                       r.ret, size + 1, args, k + 1, moved)

\* ear.c:590-614 (stringarray.c:15-44 is the same text), every allocation
\* succeeding; args is the variadic list, arg first, up to its null
bear_strings_build_mem(h, args, moved) ==
    LET l    == BuildLoop(h, NULL, 0, args, 1, moved)
        size == IF l.ret = NULL THEN 0 ELSE Len(Str(l, l.ret))
        r    == realloc(l, l.ret, size + 1, moved)
    IN  [r EXCEPT !.mem[r.ret].val[size + 1] = NULL]

\* ear.c:658-663: the strings from the k-th on are freed
RECURSIVE ReleaseLoop(_, _, _)
ReleaseLoop(h, in, k) ==
    IF Str(h, in)[k] = NULL THEN h
    ELSE ReleaseLoop(free(h, Str(h, in)[k]), in, k + 1)

\* ear.c:658-663
bear_strings_release_mem(h, in) ==
    IF in = NULL THEN h ELSE free(ReleaseLoop(h, in, 1), in)

\* the host's strings strs, each a block of its own, and pointers to them
HostStrings(strs) ==
    [h    |-> [mem |-> [i \in 1..Len(strs) |-> Block("host", strs[i])],
               bad |-> {}, ret |-> NULL],
     ptrs |-> [i \in 1..Len(strs) |-> i]]

\* the blocks of the host
HostBlocks(h) == {p \in 1..Len(h.mem) : h.mem[p].own = "host"}

\* variadic lists of the host: strings, the terminating null, and for
\* execle the envp pointer after it
BuildInputs ==
    {LET hs == HostStrings(v)
     IN  [op |-> "build", pc |-> "in", h |-> hs.h, h0 |-> hs.h,
          args |-> hs.ptrs \o <<NULL>> \o t, res |-> NULL] :
        v \in SeqsUpTo(StrPool \cup {<<99, 99>>}, MaxArgs + 1), t \in {<<>>, <<1>>}}

\* argv = bear_strings_build(arg, &args) (ear.c:251, 271, 291)
Build ==
    /\ fn.op = "build"
    /\ fn.pc = "in"
    /\ \E moved \in BOOLEAN :
          LET r == bear_strings_build_mem(fn.h, fn.args, moved)
          IN  fn' = [fn EXCEPT !.pc = "built", !.h = r, !.res = r.ret]
    /\ UNCHANGED main

\* realloc or strdup returns null: perror and exit (ear.c:595-603, 607-610)
BuildFails ==
    /\ fn.op = "build"
    /\ fn.pc = "in"
    /\ fn' = [fn EXCEPT !.pc = "exited"]
    /\ UNCHANGED main

\* bear_strings_release(argv) (ear.c:259, 278, 300)
ReleaseBuilt ==
    /\ fn.op = "build"
    /\ fn.pc = "built"
    /\ fn' = [fn EXCEPT !.pc = "released", !.h = bear_strings_release_mem(fn.h, fn.res)]
    /\ UNCHANGED main

\* the arguments before the terminating null
Supplied(args) == bear_strings_length_mem([EmptyHeap EXCEPT !.mem = <<Block("host", args)>>], 1)

\* C14: bear_strings_build of any null-terminated variadic list (the one of
\* the terminator alone included) returns a non-null array, terminated by
\* the sentinel, as long as the list before its terminator, its elements
\* equal in content and order to the arguments and each a block of its own
\* that no argument points to; releasing the array frees those blocks and
\* none of the caller's, whose strings are what they were.
BuildCopies ==
    (fn.op = "build" /\ fn.pc \in {"built", "released"}) =>
        LET n == Supplied(fn.args)
            a == fn.h.mem[fn.res].val
        IN  /\ fn.res # NULL
            /\ fn.h.bad = {}
            /\ Len(a) = n + 1 /\ a[n + 1] = NULL
            /\ \A p \in HostBlocks(fn.h0) : fn.h.mem[p] = fn.h0.mem[p]
            /\ \A i \in 1..n :
                  /\ a[i] \notin HostBlocks(fn.h) \cup {NULL, fn.res}
                  /\ \A j \in 1..n : a[i] = a[j] => i = j
                  /\ fn.h.mem[a[i]].val = fn.h0.mem[fn.args[i]].val
            /\ fn.pc = "built" =>
                  /\ bear_strings_length_mem(fn.h, fn.res) = n
                  /\ \A p \in {fn.res} \cup {a[i] : i \in 1..n} : fn.h.mem[p].live
            /\ fn.pc = "released" =>
                  \A p \in 1..Len(fn.h.mem) : fn.h.mem[p].live <=> p \in HostBlocks(fn.h)

\* C14's case: the array built of a list of three strings, the empty one
\* among them and the envp of execle after the terminator, was released
BuildCopiesWitness ==
    /\ fn.op = "build"
    /\ fn.pc = "released"
    /\ Supplied(fn.args) = 3
    /\ Len(fn.args) = 5
    /\ \E i \in 1..3 : fn.h0.mem[fn.args[i]].val = <<>>

\* ------------------------------------- the environment copy on the heap
\* a copy that shares the strings of the array it copies
bear_strings_copy_mem_shallow(h, in) ==
    LET size == bear_strings_length_mem(h, in)
    IN  Alloc(h, [i \in 1..(size + 1) |-> IF i <= size THEN Str(h, in)[i] ELSE NULL])

\* ear.c:616-636 (every allocation succeeding): the array is allocated,
\* then each string strdup'ed into the next slot
bear_strings_copy_mem(h, in) ==
    LET size == bear_strings_length_mem(h, in)
        base == Len(h.mem)
    IN  [h EXCEPT
            !.mem = @ \o <<Block("lib", [i \in 1..(size + 1) |->
                                            IF i <= size THEN base + 1 + i ELSE NULL])>>
                      \o [i \in 1..size |-> Block("lib", Str(h, Str(h, in)[i]))],
            !.ret = base + 1]

\* the strings of the array in, by value, with the sentinel
Contents(h, in) ==
    IF in = NULL THEN NULLARR
    ELSE [i \in 1..bear_strings_length_mem(h, in) |-> Str(h, Str(h, in)[i])] \o <<NULLP>>

\* ear.c:561-585 (asprintf succeeding)
bear_update_environ_mem(h, envs, key, value, moved) ==
    IF envs = NULL THEN [h EXCEPT !.ret = envs]
    ELSE LET it == FindSlot(Contents(h, envs), key)
             p  == Str(h, envs)[it]
         IN  IF p = NULL \/ Drop(Str(h, p), Len(key) + 1) # value
             THEN LET a == Alloc(h, KeyValue(key, value))
                  IN  IF p # NULL
                      THEN [free(a, p) EXCEPT !.mem[envs].val[it] = a.ret, !.ret = envs]
                      ELSE bear_strings_append_mem(a, envs, a.ret, moved)
             ELSE [h EXCEPT !.ret = envs]

\* ear.c:548-559; env is NULLENV (state == 0) or <<the state>>
bear_update_environment_mem(h, envp, env, flat, moved) ==
    LET r0 == bear_strings_copy_mem(h, envp)
    IN  IF env = NULLENV THEN r0
        ELSE LET r1 == bear_update_environ_mem(r0, r0.ret, ENV_PRELOAD, env[1].preload, moved)
                 r2 == bear_update_environ_mem(r1, r1.ret, ENV_OUTPUT, env[1].output, moved)
             IN  IF flat
                 THEN bear_update_environ_mem(r2, r2.ret, ENV_FLAT, env[1].flat, moved)
                 ELSE r2

\* entries of the host's envp: P=l P=h O=d X=1
HostEntries == {<<80, 61, 108>>, <<80, 61, 104>>, <<79, 61, 100>>, <<88, 61, 49>>}

\* a call of execve or execle by the host: its argument strings, its argv
\* array, its envp array (or a null envp), in the active or inactive state
HookInputs ==
    {LET hs == HostStrings(a)
         ha == AllocAs(hs.h, "host", hs.ptrs \o <<NULL>>)
         he == IF null THEN [ha EXCEPT !.ret = NULL] ELSE ArrayHeap(ha, "host", v, 0)
     IN  [op |-> "hook", pc |-> "in", hook |-> k, h |-> he, h0 |-> he,
          args |-> hs.ptrs \o <<NULL>>, argv |-> ha.ret, envp |-> he.ret,
          state |-> s, flat |-> fl, built |-> NULL, menvp |-> NULL,
          seen |-> [argv |-> NULLARR, env |-> NULLARR]] :
        a \in {<<<<99, 99>>>>, <<<<99, 99>>, <<>>>>},
        v \in SeqsUpTo(HostEntries, MaxArgs), null \in BOOLEAN,
        k \in {"execve", "execle"}, fl \in BOOLEAN,
        s \in {NULLENV} \cup {<<e>> : e \in EnvStates}}

\* execle: argv = bear_strings_build(arg, &args) (ear.c:291)
HookBuild ==
    /\ fn.op = "hook" /\ fn.pc = "in" /\ fn.hook = "execle"
    /\ \E moved \in BOOLEAN :
          LET r == bear_strings_build_mem(fn.h, fn.args, moved)
          IN  fn' = [fn EXCEPT !.pc = "built", !.h = r, !.built = r.ret]
    /\ UNCHANGED main

\* call_execve: menvp = bear_update_environment(envp, state) (ear.c:343)
HookUpdate ==
    /\ fn.op = "hook"
    /\ \/ fn.pc = "in" /\ fn.hook = "execve"
       \/ fn.pc = "built"
    /\ \E moved \in BOOLEAN :
          LET r == bear_update_environment_mem(fn.h, fn.envp, fn.state, fn.flat, moved)
          IN  fn' = [fn EXCEPT !.pc = "updated", !.h = r, !.menvp = r.ret]
    /\ UNCHANGED main

\* call_execve: (*fp)(path, argv, menvp), which returns (ear.c:344)
HookRealCall ==
    /\ fn.op = "hook" /\ fn.pc = "updated"
    /\ fn' = [fn EXCEPT
                 !.pc = "called",
                 !.seen = [argv |-> Contents(fn.h, IF fn.hook = "execle"
                                                   THEN fn.built ELSE fn.argv),
                           env  |-> Contents(fn.h, fn.menvp)]]
    /\ UNCHANGED main

\* call_execve: bear_strings_release(menvp) (ear.c:345)
HookRelease ==
    /\ fn.op = "hook" /\ fn.pc = "called"
    /\ fn' = [fn EXCEPT !.pc = "released",
                        !.h = bear_strings_release_mem(fn.h, fn.menvp)]
    /\ UNCHANGED main

\* the hook returns; execle first releases its vector (ear.c:300-301)
HookReturn ==
    /\ fn.op = "hook" /\ fn.pc = "released"
    /\ fn' = [fn EXCEPT !.pc = "returned",
                        !.h = bear_strings_release_mem(fn.h, fn.built)]
    /\ UNCHANGED main

\* the blocks reached from the array in: the array and its strings
Reach(h, in) ==
    IF in = NULL THEN {}
    ELSE {in} \cup {Str(h, in)[i] : i \in 1..bear_strings_length_mem(h, in)}

\* C15: through a hook call, active or not, every block of the host (its
\* argv and envp arrays and their strings) stays live and holds what it
\* held; the vector handed to the real function is made of blocks of the
\* library alone, holds the updated copy of envp, and is released
\* afterwards, the library's blocks all freed and each once.
HostDataUntouched ==
    fn.op = "hook" =>
        /\ fn.h.bad = {}
        /\ \A p \in HostBlocks(fn.h0) : fn.h.mem[p] = fn.h0.mem[p]
        /\ HostBlocks(fn.h) = HostBlocks(fn.h0)
        /\ fn.pc \in {"updated", "called"} =>
              /\ fn.menvp # NULL
              /\ Reach(fn.h, fn.menvp) \cap HostBlocks(fn.h) = {}
              /\ \A p \in Reach(fn.h, fn.menvp) : fn.h.mem[p].live
              /\ Contents(fn.h, fn.menvp)
                    = bear_update_environment(Contents(fn.h0, fn.envp), fn.state, fn.flat)
        /\ fn.pc \in {"called", "released", "returned"} =>
              /\ fn.seen.env
                    = bear_update_environment(Contents(fn.h0, fn.envp), fn.state, fn.flat)
              /\ fn.seen.argv = Contents(fn.h0, fn.argv)
        /\ fn.pc = "returned" =>
              \A p \in 1..Len(fn.h.mem) : fn.h.mem[p].live <=> p \in HostBlocks(fn.h)

\* C15's case: an active hook returned whose envp set the preload variable
\* to another value than the state's and did not set the output variable
HostDataUntouchedWitness ==
    /\ fn.op = "hook"
    /\ fn.pc = "returned"
    /\ fn.state # NULLENV
    /\ fn.envp # NULL
    /\ Positions(Contents(fn.h0, fn.envp), ENV_PRELOAD) # {}
    /\ Positions(Contents(fn.h0, fn.envp), ENV_OUTPUT) = {}
    /\ fn.seen.env # Contents(fn.h0, fn.envp)

\* ----------------------------------------- the heap functions together
InitMem ==
    /\ Off
    /\ fn \in ReleaseInputs \cup AppendInputs \cup BuildInputs \cup HookInputs

NextMem ==
    \/ ReleaseEnv
    \/ Append_ear \/ Append_stringarray \/ AppendFails
    \/ Build \/ BuildFails \/ ReleaseBuilt
    \/ HookBuild \/ HookUpdate \/ HookRealCall \/ HookRelease \/ HookReturn

SpecMem == InitMem /\ [][NextMem]_vars

\* --------------------------------------------------------- socket_write
\* the largest buffer socket_write is given
MaxBytes == 8

\* socket_write(fd, buf, nbyte) entered (protocol.c:35-37): sum the bytes
\* written so far, tick the parity of the calls of write made so far
InitSock ==
    /\ Off
    /\ \E n \in 0..MaxBytes :
          fn = [op |-> "socket_write", pc |-> "loop", nbyte |-> n, sum |-> 0,
                tick |-> 0, ret |-> 0]

\* write returns a positive count, not larger than what is left
\* (protocol.c:40, 45)
WriteSome ==
    /\ fn.pc = "loop"
    /\ fn.sum # fn.nbyte
    /\ \E cur \in 1..(fn.nbyte - fn.sum) :
          fn' = [fn EXCEPT !.sum = @ + cur, !.tick = 1 - @]
    /\ UNCHANGED main

\* write returns 0: sum += 0 (protocol.c:40, 45)
WriteZero ==
    /\ fn.pc = "loop"
    /\ fn.sum # fn.nbyte
    /\ fn' = [fn EXCEPT !.tick = 1 - @]
    /\ UNCHANGED main

\* write returns -1: return cur (protocol.c:41-44)
WriteError ==
    /\ fn.pc = "loop"
    /\ fn.sum # fn.nbyte
    /\ fn' = [fn EXCEPT !.pc = "returned", !.ret = -1, !.tick = 1 - @]
    /\ UNCHANGED main

\* sum == nbyte: return sum (protocol.c:38, 47)
LoopExit ==
    /\ fn.pc = "loop"
    /\ fn.sum = fn.nbyte
    /\ fn' = [fn EXCEPT !.pc = "returned", !.ret = fn.sum]
    /\ UNCHANGED main

NextSock == WriteSome \/ WriteZero \/ WriteError \/ LoopExit

\* the loop keeps running; nothing is assumed of what write returns
SpecSock == InitSock /\ [][NextSock]_vars /\ WF_vars(NextSock)

\* what socket_write returns and writes: never more than nbyte bytes, nbyte
\* returned when all are written and -1 otherwise
SocketWriteResult ==
    /\ fn.sum <= fn.nbyte
    /\ fn.pc = "returned" => (fn.ret = fn.nbyte /\ fn.sum = fn.nbyte) \/ fn.ret = -1

\* C16: socket_write always terminates, whatever write returns (a positive
\* count, 0 or -1): it returns nbyte when all bytes were written or -1 at
\* the first error, and never writes more than nbyte bytes.
SocketWriteTerminates ==
    /\ []SocketWriteResult
    /\ <>(fn.pc = "returned")
====
